---- MODULE Spec2Model ----
(***************************************************************************)
(* babel-plugin-zod-hoist: the Program visitor of src/hoistZodSchema.ts.   *)
(*                                                                         *)
(* A program is a syntax tree.  A node is a record; its children are kept  *)
(* in `kids` in the order Babel's traversal visits them (VISITOR_KEYS).    *)
(* A NodePath is the sequence of child indices leading from the Program    *)
(* node to the node; parentPath is the path without its last index.        *)
(* Folded into their parent to keep paths short: the BlockStatement body   *)
(* of a function (Babel gives it no scope of its own), the single          *)
(* VariableDeclarator of a `const` declaration, and the local Identifier   *)
(* of an import specifier.                                                 *)
(***************************************************************************)
EXTENDS Integers, Sequences, FiniteSets, TLC

(* ------------------------------ bounds -------------------------------- *)

\* number of functions / statements holding a schema expression
MaxSites == 2
\* size of the range of the modelled digest (sha256 cut to 8 hex digits)
HashSpace == 2
\* number of times the pass is run, each on the output of the one before
MaxPasses == 2

(* ------------------------------ syntax -------------------------------- *)

\* `obj` is the identity of a node object the pass creates (0: a node of the
\* parsed program, identified by its position).
Mk(type, name, computed, arity, kids) ==
  [type |-> type, name |-> name, computed |-> computed, arity |-> arity,
   obj |-> 0, kids |-> kids]

Id(n) == Mk("Identifier", n, FALSE, 0, <<>>)
This == Mk("ThisExpression", "", FALSE, 0, <<>>)
Member(o, prop) == Mk("MemberExpression", "", FALSE, 0, <<o, Id(prop)>>)
Index(o, e) == Mk("MemberExpression", "", TRUE, 0, <<o, e>>)
Call(callee, args) == Mk("CallExpression", "", FALSE, 0, <<callee>> \o args)
Arrow(params, body) ==
  Mk("ArrowFunctionExpression", "", FALSE, Len(params),
     [i \in 1..Len(params) |-> Id(params[i])] \o <<body>>)
Prop(key, value) == Mk("ObjectProperty", "", FALSE, 0, <<Id(key), value>>)
CProp(key, value) == Mk("ObjectProperty", "", TRUE, 0, <<key, value>>)
Obj(props) == Mk("ObjectExpression", "", FALSE, 0, props)
Await(e) == Mk("AwaitExpression", "", FALSE, 0, <<e>>)
Return(e) == Mk("ReturnStatement", "", FALSE, 0, <<e>>)
Block(stmts) == Mk("BlockStatement", "", FALSE, 0, stmts)
Const(n, init) == Mk("VariableDeclaration", "const", FALSE, 0, <<Id(n), init>>)
Func(n, params, body) ==
  Mk("FunctionDeclaration", n, FALSE, Len(params),
     [i \in 1..Len(params) |-> Id(params[i])] \o body)
ImportOf(specs) == Mk("ImportDeclaration", "", FALSE, 0, specs)
Named(n) == Mk("ImportSpecifier", n, FALSE, 0, <<>>)
Default(n) == Mk("ImportDefaultSpecifier", n, FALSE, 0, <<>>)
Namespace(n) == Mk("ImportNamespaceSpecifier", n, FALSE, 0, <<>>)
ProgramOf(body) == Mk("Program", "", FALSE, 0, body)

(* ---------------------------- tree access ----------------------------- *)

RECURSIVE NodeAt(_, _)
NodeAt(tree, path) ==
  IF path = <<>> THEN tree ELSE NodeAt(tree.kids[Head(path)], Tail(path))

RECURSIVE Paths(_)
Paths(node) ==
  {<<>>} \cup UNION { { <<i>> \o p : p \in Paths(node.kids[i]) } :
                      i \in 1..Len(node.kids) }

RECURSIVE ReplaceAt(_, _, _)
ReplaceAt(tree, path, new) ==
  IF path = <<>> THEN new
  ELSE [tree EXCEPT !.kids[Head(path)] = ReplaceAt(@, Tail(path), new)]

parentPath(path) == SubSeq(path, 1, Len(path) - 1)

IsPrefix(a, b) == Len(a) <= Len(b) /\ SubSeq(b, 1, Len(a)) = a
IsProperPrefix(a, b) == Len(a) < Len(b) /\ SubSeq(b, 1, Len(a)) = a

\* a is visited before b by a pre-order, left-to-right traversal
RECURSIVE Before(_, _)
Before(a, b) ==
  IF a = <<>> THEN b # <<>>
  ELSE IF b = <<>> THEN FALSE
  ELSE IF Head(a) # Head(b) THEN Head(a) < Head(b)
  ELSE Before(Tail(a), Tail(b))

RECURSIVE PreOrder(_, _)
RECURSIVE PreOrderKids(_, _, _)
PreOrderKids(node, base, i) ==
  IF i > Len(node.kids) THEN <<>>
  ELSE PreOrder(node.kids[i], Append(base, i)) \o PreOrderKids(node, base, i + 1)
PreOrder(node, base) == <<base>> \o PreOrderKids(node, base, 1)

(* ------------------------- chains (lines 11-80) ----------------------- *)

\* mutant: the spelling of the identifier is not looked at
isAnyIdentifier(node) == node.type = "Identifier"

isZodIdentifier(node) == node.type = "Identifier" /\ node.name = "z"

RECURSIVE getChainRoot(_)
getChainRoot(node) ==
  IF node.type = "CallExpression" THEN getChainRoot(node.kids[1])
  ELSE IF node.type = "MemberExpression" THEN getChainRoot(node.kids[1])
  ELSE node

isZodCall(node) == isZodIdentifier(getChainRoot(node))

\* The loop tests only the types of the parent and the grandparent, not the
\* position the node has in them.
RECURSIVE getOutermostCall(_, _)
getOutermostCall(tree, path) ==
  IF /\ Len(path) >= 2
     /\ NodeAt(tree, parentPath(path)).type = "MemberExpression"
     /\ NodeAt(tree, parentPath(parentPath(path))).type = "CallExpression"
  THEN getOutermostCall(tree, parentPath(parentPath(path)))
  ELSE path

\* mutant: the ancestor walk finds nothing
isNestedNever(tree, outerPath) == FALSE

\* mutant: only the parent is looked at, not every ancestor
isNestedInParentOnly(tree, outerPath) ==
  /\ outerPath # <<>>
  /\ NodeAt(tree, parentPath(outerPath)).type = "CallExpression"
  /\ isZodCall(NodeAt(tree, parentPath(outerPath)))

isNestedInZodCall(tree, outerPath) ==
  \E k \in 0..(Len(outerPath) - 1) :
    LET anc == NodeAt(tree, SubSeq(outerPath, 1, k))
    IN  anc.type = "CallExpression" /\ isZodCall(anc)

(* ------------------------- scopes and bindings ------------------------ *)

FunctionTypes == {"FunctionDeclaration", "ArrowFunctionExpression"}
ScopeTypes == FunctionTypes \cup {"Program", "BlockStatement"}
ImportSpecifierTypes ==
  {"ImportSpecifier", "ImportDefaultSpecifier", "ImportNamespaceSpecifier"}

\* no binding: a record no scope can produce
NoBinding == [scope |-> <<0>>, path |-> <<0>>]

\* the bindings a scope owns: parameters, `const` and function declarations
\* among its statements, import specifiers
OwnBindings(tree, sp) ==
  LET s == NodeAt(tree, sp) IN
  UNION { LET c == s.kids[i]
              cp == Append(sp, i)
          IN  CASE c.type = "Identifier" /\ s.type \in FunctionTypes /\ i <= s.arity ->
                     {[name |-> c.name, path |-> cp]}
                [] c.type = "VariableDeclaration" ->
                     {[name |-> c.kids[1].name, path |-> cp]}
                [] c.type = "FunctionDeclaration" ->
                     {[name |-> c.name, path |-> cp]}
                [] c.type = "ImportDeclaration" ->
                     {[name |-> c.kids[j].name, path |-> Append(cp, j)] :
                        j \in 1..Len(c.kids)}
                [] OTHER -> {}
        : i \in 1..Len(s.kids) }

\* path.scope.getBinding(name): the innermost enclosing scope that owns name
getBinding(tree, path, name) ==
  LET owners == { k \in 0..Len(path) :
                    /\ NodeAt(tree, SubSeq(path, 1, k)).type \in ScopeTypes
                    /\ \E b \in OwnBindings(tree, SubSeq(path, 1, k)) : b.name = name }
  IN  IF owners = {} THEN NoBinding
      ELSE LET k  == CHOOSE m \in owners : \A o \in owners : o <= m
               sp == SubSeq(path, 1, k)
               b  == CHOOSE x \in OwnBindings(tree, sp) : x.name = name
           IN  [scope |-> sp, path |-> b.path]

\* the scope of the Program path
programScope == <<>>

\* mutant: the Program counts as a function parent
getFunctionParentOrProgram(tree, path) ==
  { k \in 0..(Len(path) - 1) :
      NodeAt(tree, SubSeq(path, 1, k)).type \in FunctionTypes \cup {"Program"} }

\* mutant: a block statement counts as a function parent
getFunctionParentOrBlock(tree, path) ==
  { k \in 0..(Len(path) - 1) :
      NodeAt(tree, SubSeq(path, 1, k)).type \in FunctionTypes \cup {"BlockStatement"} }

getFunctionParent(tree, path) ==
  { k \in 0..(Len(path) - 1) : NodeAt(tree, SubSeq(path, 1, k)).type \in FunctionTypes }

(* --------------------------- lines 86-107 ----------------------------- *)

\* mutant: the binding of z is not looked up
isGlobalZodReferenceByName(tree, path) ==
  isZodIdentifier(getChainRoot(NodeAt(tree, path)))

isGlobalZodReference(tree, path) ==
  IF ~isZodIdentifier(getChainRoot(NodeAt(tree, path))) THEN FALSE
  ELSE LET binding == getBinding(tree, path, "z")
       IN  IF binding = NoBinding THEN TRUE
           ELSE binding.scope = programScope

(* --------------------------- lines 115-187 ---------------------------- *)

\* mutant: default and namespace specifiers are forgotten
isImportBindingNamedOnly(tree, binding) ==
  NodeAt(tree, binding.path).type = "ImportSpecifier"

isImportBinding(tree, binding) ==
  NodeAt(tree, binding.path).type \in ImportSpecifierTypes

\* The Identifier visitor of canSafelyHoist: TRUE when it leaves canHoist
\* alone, FALSE when it sets canHoist to false and stops the traversal.
IdentifierVisitor(tree, path, idPath) ==
  LET node   == NodeAt(tree, idPath)
      parent == NodeAt(tree, parentPath(idPath))
      key    == idPath[Len(idPath)]
  IN  IF node.name = "z" THEN TRUE
      ELSE IF parent.type = "MemberExpression" /\ key = 2 /\ ~parent.computed THEN TRUE
      ELSE IF parent.type = "ObjectProperty" /\ key = 1 /\ ~parent.computed THEN TRUE
      ELSE LET binding == getBinding(tree, idPath, node.name)
           IN  IF binding = NoBinding THEN TRUE
               ELSE IF IsProperPrefix(path, binding.path) THEN TRUE
               ELSE IF binding.scope = programScope
                    THEN isImportBinding(tree, binding)
                    ELSE FALSE

\* path.traverse({Identifier, ThisExpression}) over the descendants of path, in
\* traversal order; idPath.stop() ends the walk, ThisExpression does not.
RECURSIVE SafetyWalk(_, _, _, _)
SafetyWalk(tree, path, todo, canHoist) ==
  IF todo = <<>> THEN canHoist
  ELSE LET node == NodeAt(tree, Head(todo))
       IN  IF node.type = "ThisExpression"
           THEN SafetyWalk(tree, path, Tail(todo), FALSE)
           ELSE IF node.type = "Identifier"
           THEN IF IdentifierVisitor(tree, path, Head(todo))
                THEN SafetyWalk(tree, path, Tail(todo), canHoist)
                ELSE FALSE
           ELSE SafetyWalk(tree, path, Tail(todo), canHoist)

canSafelyHoist(tree, path) ==
  SafetyWalk(tree, path, Tail(PreOrder(NodeAt(tree, path), path)), TRUE)

(* ------------------- printer, digest, fresh names --------------------- *)

RECURSIVE generate(_)
RECURSIVE PrintList(_, _, _)
PrintList(kids, i, sep) ==
  IF i > Len(kids) THEN <<>>
  ELSE generate(kids[i]) \o (IF i < Len(kids) THEN <<sep>> ELSE <<>>)
       \o PrintList(kids, i + 1, sep)
\* @babel/generator, as the sequence of tokens of the printed code
generate(node) ==
  CASE node.type = "Identifier" -> <<node.name>>
    [] node.type = "ThisExpression" -> <<"this">>
    [] node.type = "CallExpression" ->
         generate(node.kids[1]) \o <<"(">> \o PrintList(Tail(node.kids), 1, ",") \o <<")">>
    [] node.type = "MemberExpression" ->
         IF node.computed
         THEN generate(node.kids[1]) \o <<"[">> \o generate(node.kids[2]) \o <<"]">>
         ELSE generate(node.kids[1]) \o <<".">> \o generate(node.kids[2])
    [] node.type = "ArrowFunctionExpression" ->
         <<"(">> \o PrintList(SubSeq(node.kids, 1, node.arity), 1, ",") \o <<")", "=>">>
         \o generate(node.kids[node.arity + 1])
    [] node.type = "ObjectExpression" ->
         <<"{">> \o PrintList(node.kids, 1, ",") \o <<"}">>
    [] node.type = "ObjectProperty" ->
         (IF node.computed
          THEN <<"[">> \o generate(node.kids[1]) \o <<"]">>
          ELSE generate(node.kids[1]))
         \o <<":">> \o generate(node.kids[2])
    [] node.type = "AwaitExpression" -> <<"await">> \o generate(node.kids[1])
    [] OTHER -> <<node.type, node.name>> \o PrintList(node.kids, 1, ";")

\* The digest is not injective; the model keeps that by cutting it to HashSpace
\* values, spelled with the hex letters.
HexLetters == <<"a", "b", "c", "d", "e", "f">>
generateHash(code) == HexLetters[(Len(code) % HashSpace) + 1]

RECURSIVE AllNames(_)
\* every name the program mentions (scope.references, bindings, globals)
AllNames(node) ==
  (IF node.type \in {"Identifier", "FunctionDeclaration"} \cup ImportSpecifierTypes
   THEN {node.name} ELSE {})
  \cup UNION { AllNames(node.kids[i]) : i \in 1..Len(node.kids) }

uidCandidate(name, i) == IF i > 1 THEN "_" \o name \o ToString(i) ELSE "_" \o name

\* scope.generateUid: _name, _name2, _name3, ... until the name is unused
RECURSIVE generateUidFrom(_, _, _)
generateUidFrom(name, taken, i) ==
  IF uidCandidate(name, i) \in taken THEN generateUidFrom(name, taken, i + 1)
  ELSE uidCandidate(name, i)

\* mutant: the first candidate is taken without looking at the names in use
generateUidUnchecked(name, taken) == uidCandidate(name, 1)

generateUid(name, taken) == generateUidFrom(name, taken, 1)

(* ------------------------- the programs checked ----------------------- *)

\* z.s()
zs == Call(Member(Id("z"), "s"), <<>>)
\* z.o(a)
zo(a) == Call(Member(Id("z"), "o"), <<a>>)

\* g: bound nowhere; k, d, ns: imported; t: a top-level const declared below
\* the functions; p: a parameter or local of the enclosing function;
\* _schema_a: a name the generated names can collide with; arguments: the
\* arguments object of the enclosing function, which no scope binds
Leaves ==
  { Id("g"), Id("k"), Id("d"), Id("ns"), Id("t"), Id("p"), Id("_schema_a"),
    Id("arguments") }

Arguments ==
  Leaves \cup
  { Arrow(<<"v">>, Id("v")),
    Arrow(<<>>, Member(This, "ok")),
    Arrow(<<"z">>, zs),
    zs,
    Obj(<<Prop("n", zs)>>),
    Obj(<<Prop("p", zs)>>),
    Obj(<<CProp(Id("p"), zs)>>),
    Member(Id("g"), "p"),
    Index(Id("g"), Id("p")),
    Await(Call(Id("g"), <<>>)) }

TerminalMethods == {"parse", "safeParse", "parseAsync", "safeParseAsync"}

Receivers == { zs, zo(zs), zo(Id("p")) }
TerminalArguments == { <<>>, <<Id("p")>>, <<Id("g")>>, <<Await(Call(Id("g"), <<>>))>> }

Expressions ==
  { zs }
  \cup { zo(a) : a \in Arguments }
  \cup { Call(Member(r, "parse"), a) : r \in Receivers, a \in TerminalArguments }
  \cup { Call(Member(zs, "safeParse"), <<Id("p")>>),
         Call(Member(Member(Id("z"), "coerce"), "s"), <<>>),
         Call(Member(Id("g"), "s"), <<>>),
         Call(Id("g"), <<zs>>),
         Call(Id("g"), <<Member(zs, "x")>>),
         Call(Id("g"), <<zo(Id("g")), zo(zs)>>),
         Call(Id("g"), <<zo(Id("p")), zo(Id("k"))>>),
         Call(Member(Id("k"), "parse"), <<zs>>),
         Call(Member(Id("k"), "s"), <<>>),
         Call(Member(This, "s"), <<>>),
         Call(Member(Id("t"), "o"), <<Obj(<<Prop("n", zs)>>)>>) }

\* the expressions of the second and later sites
LaterExpressions == { zs, zo(zs) }

\* the statement forms an expression is placed in
Wrappers == 1..9
Wrap(w, fname, e) ==
  CASE w = 1 -> Func(fname, <<>>, <<Return(e)>>)
    [] w = 2 -> Func(fname, <<"p">>, <<Return(e)>>)
    [] w = 3 -> Func(fname, <<"z">>, <<Return(e)>>)
    [] w = 4 -> Func(fname, <<"p">>, <<Const("z", Id("g")), Return(e)>>)
    [] w = 5 -> Func(fname, <<>>, <<Block(<<Const("p", Id("g")), Const("r", e)>>)>>)
    [] w = 6 -> Const(fname, e)
    [] w = 7 -> Func(fname, <<"p">>, <<Func("h", <<>>, <<Return(e)>>)>>)
    [] w = 8 -> Block(<<Const("z", Id("g")), Func(fname, <<>>, <<Return(e)>>)>>)
    [] w = 9 -> Block(<<Const(fname, e)>>)

\* how the program binds z: not at all, by an import, by a top-level const
ZBindings == {"none", "import", "const"}
Prelude(zb) ==
  <<ImportOf(<<Default("d"), Named("k")>>), ImportOf(<<Namespace("ns")>>)>>
  \o (CASE zb = "none" -> <<>>
        [] zb = "import" -> <<ImportOf(<<Named("z")>>)>>
        [] zb = "const" -> <<Const("z", Id("g"))>>)

Postlude == << Const("t", Id("g")), Const("_schema_a", Id("g")) >>

LaterSites == UNION { [1..n -> LaterExpressions] : n \in 0..(MaxSites - 1) }

Programs ==
  { ProgramOf(Prelude(zb)
              \o <<Wrap(w, "f1", e)>>
              \o [i \in 1..Len(later) |-> Wrap(2, "f" \o ToString(i + 1), later[i])]
              \o Postlude) :
      zb \in ZBindings, w \in Wrappers, e \in Expressions, later \in LaterSites }

(* ------------------------------- state -------------------------------- *)

VARIABLES
  tree,            \* the program the visitor is working on
  input,           \* the program as this pass received it
  pass,            \* which run of the pass this is
  pc,              \* "traverse": inside programPath.traverse; "done": after it;
                   \* "failed": an exception left the visitor
  cur,             \* the path of the call expression visited last
  hoistedSchemas,  \* Map code -> identifier, as a set of [code, id]
  schemasToHoist,  \* Array<{id, init}>
  processedNodes,  \* WeakSet of nodes, each named by its path in tree
  uids,            \* the names generateUidIdentifier handed out
  log              \* what the visitor decided for each call it visited

vars == <<tree, input, pass, pc, cur, hoistedSchemas, schemasToHoist,
          processedNodes, uids, log>>

Init ==
  /\ tree \in Programs
  /\ input = tree
  /\ pass = 1
  /\ pc = "traverse"
  /\ cur = <<>>
  /\ hoistedSchemas = {}
  /\ schemasToHoist = <<>>
  /\ processedNodes = {}
  /\ uids = {}
  /\ log = <<>>

(* ------------------------------ the pass ------------------------------ *)

\* no path: child indices start at 1
NoPath == <<0>>

RECURSIVE FirstCallIn(_, _)
RECURSIVE FirstCallInKids(_, _, _)
\* the first call expression the traversal meets in the subtree at base
FirstCallIn(node, base) ==
  IF node.type = "CallExpression" THEN base ELSE FirstCallInKids(node, base, 1)
FirstCallInKids(node, base, i) ==
  IF i > Len(node.kids) THEN NoPath
  ELSE LET found == FirstCallIn(node.kids[i], Append(base, i))
       IN  IF found # NoPath THEN found ELSE FirstCallInKids(node, base, i + 1)

RECURSIVE FirstCallAfter(_, _, _)
\* the first call expression the traversal meets after the path base \o rest
FirstCallAfter(node, base, rest) ==
  IF rest = <<>> THEN FirstCallInKids(node, base, 1)
  ELSE IF Head(rest) > Len(node.kids) THEN NoPath
  ELSE LET found == FirstCallAfter(node.kids[Head(rest)], Append(base, Head(rest)),
                                   Tail(rest))
       IN  IF found # NoPath THEN found
           ELSE FirstCallInKids(node, base, Head(rest) + 1)

\* the call expression the traversal reaches next, NoPath at its end
NextPath == FirstCallAfter(tree, <<>>, cur)

RECURSIVE cloneNode(_)
\* t.cloneNode(node, true): new node objects throughout
cloneNode(node) ==
  [node EXCEPT !.obj = 0, !.kids = [i \in 1..Len(node.kids) |-> cloneNode(node.kids[i])]]

existingId(code) ==
  IF \E e \in hoistedSchemas : e.code = code
  THEN { (CHOOSE e \in hoistedSchemas : e.code = code).id }
  ELSE {}

\* the branch the CallExpression visitor leaves by (lines 215-280)
Verdict(path) ==
  LET outerPath == getOutermostCall(tree, path) IN
  IF ~isZodCall(NodeAt(tree, path)) THEN "notZod"
  ELSE IF outerPath \in processedNodes THEN "processed"
  ELSE IF isNestedInZodCall(tree, outerPath) THEN "nested"
  ELSE IF ~isGlobalZodReference(tree, outerPath) THEN "notGlobal"
  ELSE IF getFunctionParent(tree, outerPath) = {} THEN "topLevel"
  ELSE IF ~canSafelyHoist(tree, outerPath) THEN "unsafe"
  ELSE IF existingId(generate(NodeAt(tree, outerPath))) # {} THEN "reused"
  ELSE "new"

Accepting == {"reused", "new"}

\* outerPath.replaceWith(node): the nodes below outerPath leave the tree
Replaced(outerPath, node) ==
  /\ tree' = ReplaceAt(tree, outerPath, node)
  /\ processedNodes' = { q \in processedNodes : ~IsPrefix(outerPath, q) }

VisitCall ==
  /\ pc = "traverse"
  /\ NextPath # NoPath
  /\ LET path      == NextPath
         outerPath == getOutermostCall(tree, path)
         verdict   == Verdict(path)
         node      == NodeAt(tree, outerPath)
         code      == generate(node)
     IN  /\ cur' = path
         /\ log' = Append(log, [path |-> path, outer |-> outerPath, verdict |-> verdict])
         /\ CASE verdict \in {"notZod", "processed"} ->
                   UNCHANGED <<tree, processedNodes, hoistedSchemas, schemasToHoist, uids>>
              [] verdict \in {"nested", "notGlobal", "topLevel", "unsafe"} ->
                   /\ processedNodes' = processedNodes \cup {outerPath}
                   /\ UNCHANGED <<tree, hoistedSchemas, schemasToHoist, uids>>
              [] verdict = "reused" ->
                   /\ Replaced(outerPath,
                               cloneNode(CHOOSE id \in existingId(code) : TRUE))
                   /\ UNCHANGED <<hoistedSchemas, schemasToHoist, uids>>
              [] verdict = "new" ->
                   LET hash == generateHash(code)
                       name == generateUid("schema_" \o hash, AllNames(tree) \cup uids)
                       id   == [Id(name) EXCEPT !.obj = Len(schemasToHoist) + 1]
                   IN  /\ hoistedSchemas' = hoistedSchemas \cup {[code |-> code, id |-> id]}
                       /\ schemasToHoist' =
                            Append(schemasToHoist, [id |-> id, init |-> cloneNode(node)])
                       /\ uids' = uids \cup {name}
                       /\ Replaced(outerPath, id)
  /\ UNCHANGED <<input, pass, pc>>

\* generate (line 254) or generateUidIdentifier (line 266) throws while the
\* visitor handles a candidate that passed every filter.  Nothing catches the
\* exception: it leaves the CallExpression visitor, programPath.traverse and
\* the Program visitor, so lines 283-290 do not run.
PrinterFails ==
  /\ pc = "traverse"
  /\ NextPath # NoPath
  /\ Verdict(NextPath) \in Accepting
  /\ cur' = NextPath
  /\ pc' = "failed"
  /\ UNCHANGED <<tree, input, pass, hoistedSchemas, schemasToHoist,
                 processedNodes, uids, log>>

\* mutant: the queue is emitted last entry first
declarationsReversed ==
  [i \in 1..Len(schemasToHoist) |->
     Mk("VariableDeclaration", "const", FALSE, 0,
        <<schemasToHoist[Len(schemasToHoist) + 1 - i].id,
          schemasToHoist[Len(schemasToHoist) + 1 - i].init>>)]

declarations ==
  [i \in 1..Len(schemasToHoist) |->
     Mk("VariableDeclaration", "const", FALSE, 0,
        <<schemasToHoist[i].id, schemasToHoist[i].init>>)]

\* lines 283-290, after the traversal
InsertDeclarations ==
  /\ pc = "traverse"
  /\ NextPath = NoPath
  /\ tree' = IF Len(schemasToHoist) > 0
             THEN [tree EXCEPT !.kids = declarations \o @]
             ELSE tree
  /\ pc' = "done"
  /\ UNCHANGED <<input, pass, cur, hoistedSchemas, schemasToHoist,
                 processedNodes, uids, log>>

\* the plugin is run on its own output, parsed anew: a new Program visit with
\* new registries, over new node objects
RunAgain ==
  /\ pc = "done"
  /\ pass < MaxPasses
  /\ pass' = pass + 1
  /\ tree' = cloneNode(tree)
  /\ input' = tree'
  /\ pc' = "traverse"
  /\ cur' = <<>>
  /\ hoistedSchemas' = {}
  /\ schemasToHoist' = <<>>
  /\ processedNodes' = {}
  /\ uids' = {}
  /\ log' = <<>>

Next == VisitCall \/ PrinterFails \/ InsertDeclarations \/ RunAgain

Spec == Init /\ [][Next]_vars

(* --------------------- what the claims speak about -------------------- *)

\* the declarations InsertDeclarations has put in front of the body
Inserted == IF pc = "done" THEN Len(schemasToHoist) ELSE 0

\* where a node of the input is in tree (replaceWith keeps every position,
\* unshiftContainer moves the top-level statements down)
Now(q) == IF Inserted = 0 THEN q ELSE <<Head(q) + Inserted>> \o Tail(q)

\* the occurrence sites the visitor replaced
AcceptedSites == { log[i].outer : i \in { j \in 1..Len(log) : log[j].verdict \in Accepting } }

\* the canonical form of the expression the input has at q
CanonAt(q) == generate(NodeAt(input, q))

\* the top-level declarations of name n
DeclarationsOf(n) ==
  { j \in 1..Len(tree.kids) :
      tree.kids[j].type = "VariableDeclaration" /\ tree.kids[j].kids[1].name = n }

\* the call expressions of the input whose chain starts at z
ZodCallsOf(prog) ==
  { q \in Paths(prog) : NodeAt(prog, q).type = "CallExpression" /\ isZodCall(NodeAt(prog, q)) }

\* a call of the program with a z-rooted call among its ancestors
HasZodAncestor(prog, q) == \E a \in ZodCallsOf(prog) : IsProperPrefix(a, q)

\* an identifier that is read as a variable: not a property name, not a key
IsReference(prog, ip) ==
  LET parent == NodeAt(prog, parentPath(ip))
      key    == ip[Len(ip)]
  IN  /\ NodeAt(prog, ip).type = "Identifier"
      /\ ~(parent.type = "MemberExpression" /\ key = 2 /\ ~parent.computed)
      /\ ~(parent.type = "ObjectProperty" /\ key = 1 /\ ~parent.computed)

Below(prog, q) == { q \o r : r \in Paths(NodeAt(prog, q)) \ {<<>>} }

(* ------------------------------- claims ------------------------------- *)

\* C1: after a pass no identifier reference inside a hoisted initializer, z
\* included, resolves to a program-scope binding declared by anything other than
\* an import specifier.
C1_NoTopLevelRead ==
  pc = "done" =>
    \A d \in 1..Inserted :
      \A ip \in Below(tree, <<d, 2>>) :
        IsReference(tree, ip) =>
          LET binding == getBinding(tree, ip, NodeAt(tree, ip).name)
          IN  \/ binding = NoBinding
              \/ binding.scope # programScope
              \/ isImportBinding(tree, binding)

\* C2: accepted candidates with the same canonical form are replaced by a
\* reference to the same generated name; that name has exactly one top-level
\* declaration, an inserted one; the number of inserted declarations is the
\* number of distinct canonical forms among the accepted candidates.
C2_Dedup ==
  pc = "done" =>
    /\ \A q \in AcceptedSites : NodeAt(tree, Now(q)).type = "Identifier"
    /\ \A q1, q2 \in AcceptedSites :
         CanonAt(q1) = CanonAt(q2) => NodeAt(tree, Now(q1)).name = NodeAt(tree, Now(q2)).name
    /\ \A q \in AcceptedSites :
         /\ Cardinality(DeclarationsOf(NodeAt(tree, Now(q)).name)) = 1
         /\ \A j \in DeclarationsOf(NodeAt(tree, Now(q)).name) :
              j <= Inserted /\ generate(tree.kids[j].kids[2]) = CanonAt(q)
    /\ Len(tree.kids) - Len(input.kids) = Cardinality({ CanonAt(q) : q \in AcceptedSites })

C2_Witness ==
  /\ pc = "done"
  /\ \E q1, q2 \in AcceptedSites : q1 # q2 /\ CanonAt(q1) = CanonAt(q2)
  /\ \E q1, q2 \in AcceptedSites :
       CanonAt(q1) # CanonAt(q2) /\ generateHash(CanonAt(q1)) = generateHash(CanonAt(q2))

IsTerminalSite(q) ==
  LET site == NodeAt(input, q) IN
  /\ site.type = "CallExpression"
  /\ Len(site.kids) = 2
  /\ site.kids[1].type = "MemberExpression" /\ ~site.kids[1].computed
  /\ site.kids[1].kids[2].name \in TerminalMethods
  /\ site.kids[1].kids[1].type = "CallExpression"
  /\ isZodCall(site.kids[1].kids[1])
  /\ ~isNestedInZodCall(input, q)
  /\ isGlobalZodReference(input, q \o <<1, 1>>)
  /\ getFunctionParent(input, q) # {}
  /\ canSafelyHoist(input, q \o <<1, 1>>)
  /\ site.kids[2].type = "Identifier"
  /\ LET binding == getBinding(input, q \o <<2>>, site.kids[2].name)
     IN  /\ binding # NoBinding
         /\ NodeAt(input, binding.scope).type \in FunctionTypes
         /\ NodeAt(input, binding.path).type = "Identifier"

\* C4: at such a site the receiver is hoisted into a top-level declaration and
\* the site becomes `<generated name>.<method>(<argument>)`.
C4_ReceiverHoisted ==
  pc = "done" =>
    \A q \in Paths(input) :
      IsTerminalSite(q) =>
        LET before == NodeAt(input, q)
            after  == NodeAt(tree, Now(q))
        IN  /\ after.type = "CallExpression"
            /\ after.kids[2] = before.kids[2]
            /\ after.kids[1].type = "MemberExpression"
            /\ after.kids[1].kids[2] = before.kids[1].kids[2]
            /\ after.kids[1].kids[1].type = "Identifier"
            /\ \E d \in 1..Inserted :
                 /\ tree.kids[d].kids[1].name = after.kids[1].kids[1].name
                 /\ tree.kids[d].kids[2] = cloneNode(before.kids[1].kids[1])

IsTerminalCall(node) ==
  /\ node.type = "CallExpression"
  /\ node.kids[1].type = "MemberExpression" /\ ~node.kids[1].computed
  /\ node.kids[1].kids[2].name \in TerminalMethods

\* C5: a terminal .parse(...) call at the end of a z chain is never moved into a
\* hoisted declaration, whatever its argument is.
C5_TerminalCallStays ==
  \A d \in 1..Len(schemasToHoist) : ~IsTerminalCall(schemasToHoist[d].init)

\* the name z resolves, at the call q of the input, to a binding that a scope
\* other than the program scope owns
ZShadowedAt(q) ==
  LET binding == getBinding(input, q, "z")
  IN  binding # NoBinding /\ binding.scope # programScope

\* C6: a z-rooted call site where z resolves to a binding of a scope other than
\* the program scope is never replaced and nothing is declared for it; where z
\* has no binding or a program-scope binding, the shadowing check passes.
C6_ShadowedNeverHoisted ==
  /\ pc = "done" =>
       \A q \in ZodCallsOf(input) :
         ZShadowedAt(q) =>
           /\ q \notin AcceptedSites
           /\ \/ \E a \in AcceptedSites : IsProperPrefix(a, q)
              \/ NodeAt(tree, Now(q)) = NodeAt(input, q)
  /\ \A i \in 1..Len(log) :
       (isZodCall(NodeAt(input, log[i].outer)) /\ ~ZShadowedAt(log[i].outer))
         => log[i].verdict # "notGlobal"

C6_Witness ==
  /\ pc = "done"
  /\ \E i \in 1..Len(log) :
       /\ log[i].verdict = "notGlobal"
       /\ ZShadowedAt(log[i].outer)
       /\ NodeAt(input, getBinding(input, log[i].outer, "z").scope).type = "BlockStatement"
  /\ AcceptedSites # {}

\* the statements of the input with every accepted site replaced by a
\* reference to the name declared for its canonical form
NameFor(q) ==
  LET d == CHOOSE j \in 1..Inserted : generate(tree.kids[j].kids[2]) = CanonAt(q)
  IN  tree.kids[d].kids[1].name

RECURSIVE Rewritten(_, _)
Rewritten(prog, sites) ==
  IF sites = {} THEN prog
  ELSE LET q == CHOOSE x \in sites : TRUE
       IN  Rewritten(ReplaceAt(prog, q, Id(NameFor(q))), sites \ {q})

\* the first accepted site, in traversal order, of the canonical form code
FirstSite(code) ==
  LET sites == { q \in AcceptedSites : CanonAt(q) = code }
  IN  CHOOSE q \in sites : \A r \in sites : r = q \/ Before(q, r)

\* C7: after a pass the body is the hoisted const declarations, one declarator
\* each, in the order their canonical forms were first accepted by the
\* traversal, followed by the pre-existing statements in their original order;
\* with no accepted candidate the body is unchanged.
C7_BodyOrder ==
  pc = "done" =>
    /\ Len(tree.kids) = Inserted + Len(input.kids)
    /\ \A d \in 1..Inserted :
         /\ tree.kids[d].type = "VariableDeclaration"
         /\ tree.kids[d].name = "const"
         /\ Len(tree.kids[d].kids) = 2
         /\ tree.kids[d].kids[1].type = "Identifier"
         /\ \E q \in AcceptedSites : CanonAt(q) = generate(tree.kids[d].kids[2])
    /\ \A d1, d2 \in 1..Inserted :
         d1 < d2 => Before(FirstSite(generate(tree.kids[d1].kids[2])),
                           FirstSite(generate(tree.kids[d2].kids[2])))
    /\ \A j \in 1..Len(input.kids) :
         cloneNode(tree.kids[Inserted + j]) = Rewritten(input, AcceptedSites).kids[j]
    /\ (AcceptedSites = {} => tree = input)

C7_Witness ==
  /\ pc = "done"
  /\ Inserted >= 2
  /\ \E q1, q2 \in AcceptedSites : Head(q1) = Head(q2) /\ CanonAt(q1) # CanonAt(q2)
  /\ \E q1, q2 \in AcceptedSites : Head(q1) # Head(q2)
  /\ tree.kids[Inserted + 1].type = "ImportDeclaration"

\* C8: a pass over the output of a pass changes nothing: it accepts no
\* candidate, inserts no declaration and replaces no call site.
C8_Idempotent ==
  pass > 1 =>
    /\ tree = input
    /\ AcceptedSites = {}
    /\ schemasToHoist = <<>>
    /\ hoistedSchemas = {}

C8_Witness ==
  /\ pass = 2
  /\ pc = "done"
  /\ Len(log) >= 3
  /\ input.kids[1].type = "VariableDeclaration"
  /\ input.kids[2].type = "VariableDeclaration"

\* the safety condition as the claim words it, for the candidate at q
SafeByBindings(prog, q) ==
  /\ \A ip \in Below(prog, q) : NodeAt(prog, ip).type # "ThisExpression"
  /\ \A ip \in Below(prog, q) :
       (IsReference(prog, ip) /\ NodeAt(prog, ip).name # "z") =>
         LET binding == getBinding(prog, ip, NodeAt(prog, ip).name)
         IN  \/ binding = NoBinding
             \/ IsProperPrefix(q, binding.path)
             \/ /\ binding.scope = programScope
                /\ NodeAt(prog, binding.path).type \in ImportSpecifierTypes

\* C9: the safety decision is `safe` exactly when the candidate holds no `this`
\* and each of its identifiers, other than z, property names and keys, is
\* unbound, bound inside the candidate, or bound by an import specifier.
C9_SafetyDecision ==
  pc = "done" =>
    \A i \in 1..Len(log) :
      log[i].verdict \in {"unsafe", "reused", "new"} =>
        (log[i].verdict # "unsafe" <=> SafeByBindings(input, log[i].outer))

C9_Witness ==
  /\ pc = "done"
  /\ \E i, j \in 1..Len(log) :
       /\ log[i].verdict = "unsafe"
       /\ \E ip \in Below(input, log[i].outer) :
            /\ IsReference(input, ip)
            /\ getBinding(input, ip, NodeAt(input, ip).name) # NoBinding
            /\ NodeAt(input, getBinding(input, ip, NodeAt(input, ip).name).scope).type
                 = "BlockStatement"
       /\ log[j].verdict = "new"
       /\ \E ip \in Below(input, log[j].outer) :
            /\ IsReference(input, ip)
            /\ NodeAt(input, ip).name # "z"
            /\ getBinding(input, ip, NodeAt(input, ip).name).scope = programScope

EnclosingFunction(prog, q) ==
  \E k \in 0..(Len(q) - 1) :
    NodeAt(prog, SubSeq(q, 1, k)).type
      \in {"FunctionDeclaration", "ArrowFunctionExpression"}

\* C11: a call is replaced only if a function encloses it; a z chain with no
\* enclosing function (top-level statement, top-level block, top-level variable
\* initializer) is left in place and nothing is declared for it.
C11_TopLevelStays ==
  /\ \A q \in AcceptedSites : EnclosingFunction(input, q)
  /\ \A d \in 1..Len(schemasToHoist) :
       \E a \in AcceptedSites :
         /\ EnclosingFunction(input, a)
         /\ schemasToHoist[d].init = cloneNode(NodeAt(input, a))
  /\ pc = "done" =>
       \A q \in ZodCallsOf(input) :
         ~EnclosingFunction(input, q) => NodeAt(tree, Now(q)) = NodeAt(input, q)

C11_Witness ==
  /\ pc = "done"
  /\ \E i \in 1..Len(log) :
       /\ log[i].verdict = "topLevel"
       /\ NodeAt(input, <<Head(log[i].outer)>>).type = "BlockStatement"
       /\ ~EnclosingFunction(input, log[i].outer)
  /\ AcceptedSites # {}

\* the chain of the node starts at an identifier spelled z
RootIsZ(node) ==
  getChainRoot(node).type = "Identifier" /\ getChainRoot(node).name = "z"

\* the call at path is an argument of a call whose chain does not start at z
IsArgumentOfOtherCall(prog, path) ==
  /\ path # <<>>
  /\ path[Len(path)] >= 2
  /\ NodeAt(prog, parentPath(path)).type = "CallExpression"
  /\ ~RootIsZ(NodeAt(prog, parentPath(path)))

\* C12: only calls whose chain starts at an identifier spelled z are replaced
\* or declared; a call whose chain starts at another identifier or at a
\* non-identifier expression stays a call; a z-rooted call that is an argument
\* of such a call is decided on its own.
C12_OnlyZRooted ==
  /\ \A q \in AcceptedSites : RootIsZ(NodeAt(input, q))
  /\ \A d \in 1..Len(schemasToHoist) : RootIsZ(schemasToHoist[d].init)
  /\ pc = "done" =>
       /\ \A q \in Paths(input) :
            (NodeAt(input, q).type = "CallExpression" /\ ~RootIsZ(NodeAt(input, q))) =>
              \/ \E a \in AcceptedSites : IsProperPrefix(a, q)
              \/ /\ NodeAt(tree, Now(q)).type = "CallExpression"
                 /\ getChainRoot(NodeAt(tree, Now(q))) = getChainRoot(NodeAt(input, q))
       /\ \A i \in 1..Len(log) :
            (RootIsZ(NodeAt(input, log[i].path)) /\ IsArgumentOfOtherCall(input, log[i].path)) =>
              /\ log[i].outer = log[i].path
              /\ log[i].verdict \notin {"notZod", "processed", "nested"}
              /\ (/\ EnclosingFunction(input, log[i].path)
                  /\ ~ZShadowedAt(log[i].path)
                  /\ SafeByBindings(input, log[i].path)) => log[i].verdict \in Accepting

C12_Witness ==
  /\ pc = "done"
  /\ \E i, j \in 1..Len(log) :
       /\ log[i].verdict = "notZod"
       /\ getChainRoot(NodeAt(input, log[i].path)).name = "k"
       /\ EnclosingFunction(input, log[i].path)
       /\ parentPath(log[j].path) = log[i].path
       /\ log[j].verdict \in Accepting
       /\ NodeAt(tree, Now(log[i].path)).type = "CallExpression"
       /\ NodeAt(tree, Now(log[j].path)).type = "Identifier"

\* C13: when the printer or the scope resolver fails at a candidate, the tree
\* holds none of the mutations of the pass: no occurrence has been replaced, no
\* declaration inserted, and no reference to a generated name is left without
\* its declaration.
C13_FailureLeavesNoMutation ==
  pc = "failed" =>
    /\ tree = input
    /\ \A q \in AcceptedSites : NodeAt(tree, q).type = "CallExpression"
    /\ \A n \in uids : n \in AllNames(tree) => DeclarationsOf(n) # {}

\* the positions of tree held by a node object the pass created and kept
CreatedAt == { q \in Paths(tree) : NodeAt(tree, q).obj # 0 }

\* C14: after a pass no node object stands at two positions of the program:
\* the binding identifier of a hoisted declaration is a different object from
\* every reference that replaced an occurrence, and a hoisted initializer
\* holds no node of an occurrence site.
C14_NoSharedNode ==
  pc = "done" =>
    /\ \A q1, q2 \in CreatedAt :
         q1 # q2 => NodeAt(tree, q1).obj # NodeAt(tree, q2).obj
    /\ \A d \in 1..Inserted :
         \A q \in AcceptedSites : NodeAt(tree, Now(q)).obj # tree.kids[d].kids[1].obj
    /\ \A d \in 1..Inserted :
         \A r \in Paths(tree.kids[d].kids[2]) : NodeAt(tree.kids[d].kids[2], r).obj = 0

\* the node at r of the expression e belongs to the function around e: no
\* function of the given types stands between e and the node
OwnedByEnclosing(e, r, types) ==
  \A k \in 0..(Len(r) - 1) : NodeAt(e, SubSeq(r, 1, k)).type \notin types

\* C15: no hoisted initializer holds a reference to the `arguments` object of
\* the enclosing function, nor an `await` that belongs to the enclosing
\* function.
C15_NoFunctionContext ==
  \A d \in 1..Len(schemasToHoist) :
    LET init == schemasToHoist[d].init IN
    \A r \in Paths(init) :
      /\ ~(/\ NodeAt(init, r).type = "AwaitExpression"
           /\ OwnedByEnclosing(init, r, FunctionTypes))
      /\ ~(/\ NodeAt(init, r).type = "Identifier"
           /\ NodeAt(init, r).name = "arguments"
           /\ OwnedByEnclosing(init, r, {"FunctionDeclaration"}))

====
